---- MODULE Spec2Model ----
(***************************************************************************)
(* Timetable conflict detector (validators.py), time model (models.py) and *)
(* the LangGraph repair loop (timetable_graph.py) of Samay_Saarthi.        *)
(*                                                                         *)
(* The specifications share the variables:                                 *)
(*   Spec           one run of TimetableGraph.generate_timetable, with the *)
(*                  LLM agent as a nondeterministic oracle;                *)
(*   ValidatorSpec  TimetableValidator.validate_timetable called directly  *)
(*                  on assignments built from a pool of sessions;          *)
(*   RepeatSpec     one TimetableValidator instance called again and again *)
(*                  on varying assignments and capacity tables;            *)
(*   OverlapSpec    TimeSlot.overlaps_with applied to pairs of intervals;  *)
(*   SharedSpec     two threads calling validate_timetable concurrently,   *)
(*                  on one TimetableValidator or on one each.              *)
(***************************************************************************)
EXTENDS Integers, Sequences, FiniteSets

VARIABLES
    pc,               \* node the graph runs next, or "done" / "aborted"
    faculty,          \* state["faculty"]: list of Faculty (id, max_hours_per_week)
    generated_slots,  \* state["generated_slots"]: list of TimetableSlot
    conflicts,        \* state["conflicts"] / the list validate_timetable returned
    status,           \* state["status"]
    iteration,        \* state["iteration"]
    is_valid,         \* the flag validate_timetable returned last
    self_conflicts,   \* TimetableValidator.conflicts of the validator instance
    last,             \* history: the node or call that ran last
    repairs,          \* history: number of _resolve_conflicts executions
    courses,          \* state["courses"]: the course codes of the run
    response,         \* the oracle response the node that ran last received
    gen_unparsed,     \* history: the generate response was not parseable JSON
    first_call,       \* RepeatSpec: arguments and result of the first call
    probe,            \* OverlapSpec: two intervals and overlaps_with both ways
    calls             \* SharedSpec: the two concurrent validate_timetable calls

vars == <<pc, faculty, generated_slots, conflicts, status, iteration,
          is_valid, self_conflicts, last, repairs, courses, response,
          gen_unparsed, first_call, probe, calls>>

---------------------------------------------------------------------------
(* Bounds *)

\* longest list of records one oracle response holds
MaxBatch == 2
\* longest assignment ValidatorSpec builds from SlotPool
MaxSlots == 4
\* longest assignment ValidatorSpec builds from LongPool
MaxLong == 7
\* longest assignment RepeatSpec passes to a call
MaxArgs == 2
\* RepeatSpec counts the calls made after the recorded one up to this
MaxLater == 2
\* OverlapSpec takes interval ends from 09:00 plus up to this many half hours
MaxHalfHours == 4

---------------------------------------------------------------------------
(* Data model: models.py *)

\* DayOfWeek values
DayNames == {"Monday", "Tuesday", "Wednesday", "Thursday", "Friday",
             "Saturday", "Sunday"}

\* Optional[str] room: None
NoRoom == "<None>"

\* Time text.  fmt = "HH:MM" is text that splits on ':' into two integer
\* fields h and m; any other fmt is text on which int()/unpacking raises.
T(hh, mm) == [fmt |-> "HH:MM", h |-> hh, m |-> mm]
BadTime == [fmt |-> "other", h |-> 0, m |-> 0]

\* TimeSlot._time_to_minutes / TimetableValidator._time_to_minutes raise
\* ValueError unless the text has the two integer fields
TimeParses(t) == t.fmt = "HH:MM"

time_to_minutes(t) == t.h * 60 + t.m

overlaps_with_closed(a, b) ==
    ~ (time_to_minutes(a.end_time) < time_to_minutes(b.start_time)
       \/ time_to_minutes(b.end_time) < time_to_minutes(a.start_time))

overlaps_with_onesided(a, b) ==
    ~ (time_to_minutes(a.end_time) <= time_to_minutes(b.start_time))

\* TimeSlot.overlaps_with
overlaps_with(a, b) ==
    ~ (time_to_minutes(a.end_time) <= time_to_minutes(b.start_time)
       \/ time_to_minutes(b.end_time) <= time_to_minutes(a.start_time))

TimeSlot(s, e) == [start_time |-> s, end_time |-> e]

TimetableSlot(c, f, d, ts, r) ==
    [course_code |-> c, faculty_id |-> f, day |-> d, time_slot |-> ts, room |-> r]

Faculty(i, mx) == [id |-> i, max_hours_per_week |-> mx]

\* values of the history variables while nothing is recorded
NoResponse == [kind |-> "none", records |-> <<>>]
NoCall == [made |-> FALSE, slots |-> <<>>, fac |-> <<>>, is_valid |-> TRUE,
           conflicts |-> <<>>, later |-> 0]
NoProbe == [made |-> FALSE]
Threads == {1, 2}
NoCalls == [t \in Threads |->
              [at |-> "idle", inst |-> 1, slots |-> <<>>, fac |-> <<>>,
               is_valid |-> TRUE, conflicts |-> <<>>]]

\* state["courses"] of the runs modelled
CourseCodes == <<"CS101", "CS201", "CS301">>

\* what the variables only one specification uses hold in the others
Idle == /\ first_call = NoCall
        /\ probe = NoProbe
        /\ calls = NoCalls

---------------------------------------------------------------------------
(* Sequence helpers *)

RECURSIVE Concat(_)
Concat(ss) == IF ss = <<>> THEN <<>> ELSE Head(ss) \o Concat(Tail(ss))

\* keys of a dict filled by iterating a list: the distinct values of ks in
\* order of first appearance
RECURSIVE KeysInOrder(_, _)
KeysInOrder(ks, seen) ==
    IF ks = <<>> THEN <<>>
    ELSE IF Head(ks) \in seen THEN KeysInOrder(Tail(ks), seen)
    ELSE <<Head(ks)>> \o KeysInOrder(Tail(ks), seen \cup {Head(ks)})

\* for i in range(n): for j in range(i + 1, n): the pairs, in loop order
IndexPairs(n) ==
    SelectSeq([k \in 1..(n * n) |-> <<((k - 1) \div n) + 1, ((k - 1) % n) + 1>>],
              LAMBDA p : p[1] < p[2])

RECURSIVE SumSeq(_)
SumSeq(s) == IF s = <<>> THEN 0 ELSE Head(s) + SumSeq(Tail(s))

Abs(x) == IF x < 0 THEN -x ELSE x

---------------------------------------------------------------------------
(* Conflict detector: validators.py *)

\* policy constants
DistributionTolerance == 2
MaxIterations == 3

SlotTimesParse(slot) ==
    TimeParses(slot.time_slot.start_time) /\ TimeParses(slot.time_slot.end_time)

RoomAssigned_any(slot) == TRUE

\* `if slot.room:` -- None and the empty string are both falsy
RoomAssigned(slot) == slot.room # NoRoom /\ slot.room # ""

\* the (key, slot1, slot2) triples the double loop over one dict of groups
\* visits, in visiting order; sel is the list of slots that were grouped
\* and ks[i] is the key sel[i] was filed under
GroupedPairs(sel, ks) ==
    LET keys == KeysInOrder(ks, {})
        OfKey(k) ==
            LET at == SelectSeq([i \in 1..Len(sel) |-> i], LAMBDA i : ks[i] = k)
                ij == IndexPairs(Len(at))
            IN  [q \in 1..Len(ij) |-> <<k, sel[at[ij[q][1]]], sel[at[ij[q][2]]]>>]
    IN  Concat([q \in 1..Len(keys) |-> OfKey(keys[q])])

\* slot1.day == slot2.day and slot1.time_slot.overlaps_with(slot2.time_slot):
\* overlaps_with converts all four times before it compares
PairRaises(pr) == pr[2].day = pr[3].day /\ ~ (SlotTimesParse(pr[2]) /\ SlotTimesParse(pr[3]))

PairConflicts_anyday(pr) == overlaps_with(pr[2].time_slot, pr[3].time_slot)

PairConflicts(pr) == pr[2].day = pr[3].day /\ overlaps_with(pr[2].time_slot, pr[3].time_slot)

\* the pairs visited before the first one that raises (all, when none does)
BeforeRaise(prs) ==
    IF \E k \in 1..Len(prs) : PairRaises(prs[k])
    THEN SubSeq(prs, 1, (CHOOSE k \in 1..Len(prs) :
                            PairRaises(prs[k]) /\ \A q \in 1..(k - 1) : ~ PairRaises(prs[q])) - 1)
    ELSE prs

AnyPairRaises(prs) == \E k \in 1..Len(prs) : PairRaises(prs[k])

FacultyEntry(pr) ==
    [kind |-> "faculty", faculty_id |-> pr[1],
     course1 |-> pr[2].course_code, course2 |-> pr[3].course_code,
     day |-> pr[2].day,
     start_time |-> pr[2].time_slot.start_time, end_time |-> pr[2].time_slot.end_time]

RoomEntry(pr) ==
    [kind |-> "room", room |-> pr[1],
     course1 |-> pr[2].course_code, course2 |-> pr[3].course_code,
     day |-> pr[2].day,
     start_time |-> pr[2].time_slot.start_time, end_time |-> pr[2].time_slot.end_time]

FacultyPairs(slots) == GroupedPairs(slots, [i \in 1..Len(slots) |-> slots[i].faculty_id])

\* _check_faculty_time_conflicts: the entries it appends (up to a raise)
check_faculty_time_conflicts(slots) ==
    LET hits == SelectSeq(BeforeRaise(FacultyPairs(slots)), PairConflicts)
    IN  [q \in 1..Len(hits) |-> FacultyEntry(hits[q])]

RoomPairs(slots) ==
    LET sel == SelectSeq(slots, RoomAssigned)
    IN  GroupedPairs(sel, [i \in 1..Len(sel) |-> sel[i].room])

\* _check_room_conflicts: the entries it appends (up to a raise)
check_room_conflicts(slots) ==
    LET hits == SelectSeq(BeforeRaise(RoomPairs(slots)), PairConflicts)
    IN  [q \in 1..Len(hits) |-> RoomEntry(hits[q])]

\* faculty_dict = {f.id: f for f in faculty}: a later entry replaces an
\* earlier one with the same id
InTable(fac, fid) == \E k \in 1..Len(fac) : fac[k].id = fid

MaxHoursOf(fac, fid) ==
    fac[CHOOSE k \in 1..Len(fac) :
            fac[k].id = fid /\ \A q \in (k + 1)..Len(fac) : fac[q].id # fid].max_hours_per_week

SlotMinutes(slot) ==
    time_to_minutes(slot.time_slot.end_time) - time_to_minutes(slot.time_slot.start_time)

\* faculty_hours[faculty_id], kept in minutes: 60 * the sum of the
\* (end_minutes - start_minutes) / 60 terms
TotalMinutes(slots, fid) ==
    LET own == SelectSeq(slots, LAMBDA sl : sl.faculty_id = fid)
    IN  SumSeq([q \in 1..Len(own) |-> SlotMinutes(own[q])])

\* f"{total_hours:.1f}": tenths of an hour, to the nearest tenth (exact for
\* totals that are multiples of 6 minutes)
HoursTenths(minutes) == (minutes + 3) \div 6

OverloadEntry(slots, fac, fid) ==
    [kind |-> "overload", faculty_id |-> fid,
     total_hours_1f |-> HoursTenths(TotalMinutes(slots, fid)),
     max_hours |-> MaxHoursOf(fac, fid)]

Overloaded_ge(slots, fac, fid) ==
    InTable(fac, fid) /\ TotalMinutes(slots, fid) >= 60 * MaxHoursOf(fac, fid)

\* if faculty_id in faculty_dict: if total_hours > max_hours
Overloaded(slots, fac, fid) ==
    InTable(fac, fid) /\ TotalMinutes(slots, fid) > 60 * MaxHoursOf(fac, fid)

\* the first loop of _check_faculty_workload converts the times of every slot
WorkloadRaises(slots) == \E k \in 1..Len(slots) : ~ SlotTimesParse(slots[k])

\* _check_faculty_workload: the entries it appends when it does not raise
check_faculty_workload(slots, fac) ==
    LET ids == KeysInOrder([i \in 1..Len(slots) |-> slots[i].faculty_id], {})
        over == SelectSeq(ids, LAMBDA fid : Overloaded(slots, fac, fid))
    IN  [q \in 1..Len(over) |-> OverloadEntry(slots, fac, over[q])]

DaysUsed_week(slots) == <<"Monday", "Tuesday", "Wednesday", "Thursday", "Friday">>

\* daily_slots: the days in order of first appearance, and len(daily_slots[day])
DaysUsed(slots) == KeysInOrder([i \in 1..Len(slots) |-> slots[i].day], {})

DayCount(slots, d) == Len(SelectSeq(slots, LAMBDA sl : sl.day = d))

Unbalanced_ge(slots) ==
    LET days == DaysUsed(slots)
        n == Len(days)
        total == SumSeq([q \in 1..n |-> DayCount(slots, days[q])])
    IN  \E k \in 1..n :
            Abs(DayCount(slots, days[k]) * n - total) >= DistributionTolerance * n

\* max(abs(count - avg_slots)) > 2 with avg_slots = sum / len, multiplied
\* through by len(slot_counts)
Unbalanced(slots) ==
    LET days == DaysUsed(slots)
        n == Len(days)
        total == SumSeq([q \in 1..n |-> DayCount(slots, days[q])])
    IN  \E k \in 1..n :
            Abs(DayCount(slots, days[k]) * n - total) > DistributionTolerance * n

DistributionEntry(slots) ==
    [kind |-> "distribution",
     daily |-> [q \in 1..Len(DaysUsed(slots)) |->
                  <<DaysUsed(slots)[q], DayCount(slots, DaysUsed(slots)[q])>>]]

check_credit_distribution_unguarded(slots) ==
    IF slots = <<>> \/ Unbalanced(slots) THEN <<DistributionEntry(slots)>> ELSE <<>>

\* _check_credit_distribution: the entries it appends
check_credit_distribution(slots) ==
    IF Unbalanced(slots) THEN <<DistributionEntry(slots)>> ELSE <<>>

validate_timetable_first_hit(slots, fac) ==
    LET fc == check_faculty_time_conflicts(slots)
        rc == check_room_conflicts(slots)
        wc == check_faculty_workload(slots, fac)
        dc == check_credit_distribution(slots)
        hit == IF Len(fc) > 0 THEN fc ELSE IF Len(rc) > 0 THEN rc
               ELSE IF Len(wc) > 0 THEN wc ELSE dc
    IN  [raises |-> WorkloadRaises(slots), is_valid |-> (Len(hit) = 0),
         conflicts |-> hit, self_conflicts |-> hit]

validate_timetable_flag_stuck(slots, fac) ==
    [raises |-> WorkloadRaises(slots), is_valid |-> TRUE,
     conflicts |-> check_faculty_time_conflicts(slots) \o check_room_conflicts(slots)
                   \o check_faculty_workload(slots, fac) \o check_credit_distribution(slots),
     self_conflicts |-> <<>>]

\* validate_timetable.  raises: a time conversion raised ValueError and the
\* call returned nothing; self_conflicts: the validator's list afterwards
validate_timetable(slots, fac) ==
    LET fc == check_faculty_time_conflicts(slots)
        rc == check_room_conflicts(slots)
        wc == check_faculty_workload(slots, fac)
        dc == check_credit_distribution(slots)
    IN  IF AnyPairRaises(FacultyPairs(slots))
        THEN [raises |-> TRUE, is_valid |-> FALSE, conflicts |-> <<>>,
              self_conflicts |-> fc]
        ELSE IF AnyPairRaises(RoomPairs(slots)) \/ WorkloadRaises(slots)
        THEN [raises |-> TRUE, is_valid |-> FALSE, conflicts |-> <<>>,
              self_conflicts |-> fc \o rc]
        ELSE LET all == fc \o rc \o wc \o dc
             IN  [raises |-> FALSE, is_valid |-> (Len(all) = 0), conflicts |-> all,
                  self_conflicts |-> all]

reset_conflicts_kept(prev) == prev

\* self.conflicts = [] at the start of validate_timetable
reset_conflicts(prev) == <<>>

\* one call on a validator instance whose self.conflicts was prev: the
\* checks append to the list line 13 left, and the flag is taken from it
validator_call(prev, slots, fac) ==
    LET r == validate_timetable(slots, fac)
        all == reset_conflicts(prev) \o r.conflicts
    IN  IF r.raises
        THEN [r EXCEPT !.self_conflicts = reset_conflicts(prev) \o r.self_conflicts]
        ELSE [raises |-> FALSE,
              is_valid |-> IF Len(reset_conflicts(prev)) = 0 THEN r.is_valid ELSE FALSE,
              conflicts |-> all, self_conflicts |-> all]

---------------------------------------------------------------------------
(* ValidatorSpec: validate_timetable called on its own, as test_system.py
   does: validator = TimetableValidator(); validator.validate_timetable(...) *)

CS101_Mon == TimetableSlot("CS101", "F001", "Monday",  TimeSlot(T(9, 0),  T(10, 0)), "R101")
CS201_Mon == TimetableSlot("CS201", "F001", "Monday",  TimeSlot(T(9, 30), T(10, 30)), "R101")
CS201_Tue == TimetableSlot("CS201", "F001", "Tuesday", TimeSlot(T(9, 30), T(10, 30)), NoRoom)
CS301_3h  == TimetableSlot("CS301", "F002", "Monday",  TimeSlot(T(9, 0),  T(12, 0)), "R101")
CS401_1h  == TimetableSlot("CS401", "F002", "Monday",  TimeSlot(T(12, 0), T(13, 0)), "R101")
CS501_Wed == TimetableSlot("CS501", "F003", "Wednesday", TimeSlot(T(14, 0), T(15, 0)), NoRoom)

SlotPool == {CS101_Mon, CS201_Mon, CS201_Tue, CS301_3h, CS401_1h, CS501_Wed}

\* the sessions the longer assignments are made of: one per day
LongPool == {CS101_Mon, CS201_Tue, CS501_Wed}

Cap3 == <<Faculty("F001", 3), Faculty("F002", 3)>>

FacultyTables == { Cap3, <<Faculty("F002", 4)>>, <<Faculty("F001", 1)>>, <<>> }

VInit ==
    /\ pc = "build"
    /\ faculty \in FacultyTables
    /\ generated_slots = <<>>
    /\ conflicts = <<>>
    /\ status = "initializing"
    /\ iteration = 0
    /\ is_valid = TRUE
    /\ self_conflicts = <<>>
    /\ last = "init"
    /\ repairs = 0
    /\ courses = CourseCodes
    /\ response = NoResponse
    /\ gen_unparsed = FALSE
    /\ Idle

\* the caller appends one more session to the assignment it will validate
AddSlot ==
    /\ pc = "build"
    /\ \E sl \in SlotPool :
          /\ \/ Len(generated_slots) < MaxSlots
             \/ /\ Len(generated_slots) < MaxLong
                /\ sl \in LongPool
                /\ \A k \in 1..Len(generated_slots) : generated_slots[k] \in LongPool
          /\ generated_slots' = Append(generated_slots, sl)
    /\ last' = "add"
    /\ UNCHANGED <<pc, faculty, conflicts, status, iteration, is_valid,
                   self_conflicts, repairs, courses, response, gen_unparsed,
                   first_call, probe, calls>>

\* is_valid, conflicts = validator.validate_timetable(slots, faculty)
CallValidate ==
    /\ pc = "build"
    /\ LET r == validator_call(self_conflicts, generated_slots, faculty)
       IN  /\ self_conflicts' = r.self_conflicts
           /\ IF r.raises
              THEN pc' = "aborted" /\ UNCHANGED <<is_valid, conflicts>>
              ELSE pc' = "validated" /\ is_valid' = r.is_valid /\ conflicts' = r.conflicts
    /\ last' = "validate"
    /\ UNCHANGED <<faculty, generated_slots, status, iteration, repairs, courses,
                   response, gen_unparsed, first_call, probe, calls>>

VNext == AddSlot \/ CallValidate

ValidatorSpec == VInit /\ [][VNext]_vars

---------------------------------------------------------------------------
(* RepeatSpec: one validator instance, called any number of times; a call
   that raises leaves the instance in use.  first_call keeps the arguments
   and the result of one earlier call that returned *)

CS301_Bad == TimetableSlot("CS301", "F002", "Tuesday", TimeSlot(BadTime, T(10, 0)), NoRoom)

RepeatPool == {CS101_Mon, CS201_Mon}

\* the assignments passed: all short ones over RepeatPool, and one on which
\* the call raises after the pairwise checks have appended entries
RepeatArgs ==
    UNION { [1..n -> RepeatPool] : n \in 0..MaxArgs }
    \cup { <<CS101_Mon, CS201_Mon, CS301_Bad>> }

RepeatTables == { Cap3, <<Faculty("F001", 1)>> }

RInit ==
    /\ pc = "idle"
    /\ faculty = <<>>
    /\ generated_slots = <<>>
    /\ conflicts = <<>>
    /\ status = "initializing"
    /\ iteration = 0
    /\ is_valid = TRUE
    /\ self_conflicts = <<>>
    /\ last = "init"
    /\ repairs = 0
    /\ courses = CourseCodes
    /\ response = NoResponse
    /\ gen_unparsed = FALSE
    /\ Idle

\* validator.validate_timetable(slots, fac) on the shared instance
RepeatValidate ==
    /\ pc \in {"idle", "called", "raised"}
    /\ last' = "validate"
    /\ \E a \in RepeatArgs, f \in RepeatTables :
          LET r == validator_call(self_conflicts, a, f)
          IN  /\ generated_slots' = a
              /\ faculty' = f
              /\ self_conflicts' = r.self_conflicts
              /\ IF r.raises
                 THEN pc' = "raised" /\ UNCHANGED <<is_valid, conflicts>>
                 ELSE pc' = "called" /\ is_valid' = r.is_valid /\ conflicts' = r.conflicts
              /\ IF first_call.made
                 THEN first_call' = [first_call EXCEPT
                                       !.later = IF @ < MaxLater THEN @ + 1 ELSE @]
                 ELSE IF r.raises
                 THEN first_call' = first_call
                 ELSE first_call' \in
                        { first_call,
                          [made |-> TRUE, slots |-> a, fac |-> f, is_valid |-> r.is_valid,
                           conflicts |-> r.conflicts, later |-> 0] }
    /\ UNCHANGED <<status, iteration, repairs, courses, response, gen_unparsed, probe, calls>>

RNext == RepeatValidate

RepeatSpec == RInit /\ [][RNext]_vars

---------------------------------------------------------------------------
(* OverlapSpec: a.overlaps_with(b) and b.overlaps_with(a) on two TimeSlots *)

TimeTexts ==
    { T(9 + (k \div 2), 30 * (k % 2)) : k \in 0..MaxHalfHours } \cup {BadTime}

\* every TimeSlot over the texts, those with start >= end included
Intervals == { TimeSlot(st, en) : st \in TimeTexts, en \in TimeTexts }

\* overlaps_with as called: it raises when one of the four conversions does
overlaps_call(a, b) ==
    IF /\ TimeParses(a.start_time) /\ TimeParses(a.end_time)
       /\ TimeParses(b.start_time) /\ TimeParses(b.end_time)
    THEN [raises |-> FALSE, value |-> overlaps_with(a, b)]
    ELSE [raises |-> TRUE, value |-> FALSE]

OInit ==
    /\ pc = "probe"
    /\ faculty = <<>>
    /\ generated_slots = <<>>
    /\ conflicts = <<>>
    /\ status = "initializing"
    /\ iteration = 0
    /\ is_valid = TRUE
    /\ self_conflicts = <<>>
    /\ last = "init"
    /\ repairs = 0
    /\ courses = CourseCodes
    /\ response = NoResponse
    /\ gen_unparsed = FALSE
    /\ Idle

Overlap ==
    /\ pc = "probe"
    /\ pc' = "probed"
    /\ last' = "overlaps_with"
    /\ \E a \in Intervals, b \in Intervals :
          probe' = [made |-> TRUE, a |-> a, b |-> b,
                    ab |-> overlaps_call(a, b), ba |-> overlaps_call(b, a)]
    /\ UNCHANGED <<faculty, generated_slots, conflicts, status, iteration, is_valid,
                   self_conflicts, repairs, courses, response, gen_unparsed, first_call,
                   calls>>

ONext == Overlap

OverlapSpec == OInit /\ [][ONext]_vars

---------------------------------------------------------------------------
(* SharedSpec: two threads each make one validate_timetable call.  Thread 1
   uses validator instance 1; thread 2 uses instance 1 as well or its own
   instance 2.  In this specification self_conflicts[i] is the list
   self.conflicts of instance i.  A call is interleaved with the other at
   the boundaries of the statements of validate_timetable; every access
   goes through the attribute self.conflicts, so both threads of a shared
   instance work on whatever list it is bound to at that moment *)

Instances == {1, 2}

\* two assignments over disjoint courses and teachers, and the empty one
SharedArgs == { <<>>, <<CS101_Mon, CS201_Mon>>, <<CS301_3h, CS401_1h>> }

SInit ==
    /\ pc = "threads"
    /\ faculty = Cap3
    /\ generated_slots = <<>>
    /\ conflicts = <<>>
    /\ status = "initializing"
    /\ iteration = 0
    /\ is_valid = TRUE
    /\ self_conflicts = [i \in Instances |-> <<>>]
    /\ last = "init"
    /\ repairs = 0
    /\ courses = CourseCodes
    /\ response = NoResponse
    /\ gen_unparsed = FALSE
    /\ first_call = NoCall
    /\ probe = NoProbe
    /\ \E i \in Instances : calls = [NoCalls EXCEPT ![2].inst = i]

\* what a step of thread t leaves alone
SFrame ==
    UNCHANGED <<pc, faculty, generated_slots, conflicts, status, iteration, is_valid,
                repairs, courses, response, gen_unparsed, first_call, probe>>

\* the call is entered with its arguments; line 13: self.conflicts = []
Enter(t) ==
    /\ calls[t].at = "idle"
    /\ \E a \in SharedArgs :
          calls' = [calls EXCEPT ![t].at = "faculty", ![t].slots = a, ![t].fac = faculty]
    /\ self_conflicts' = [self_conflicts EXCEPT ![calls[t].inst] = <<>>]
    /\ last' = "enter"
    /\ SFrame

\* line 16: self._check_faculty_time_conflicts(slots)
CheckFaculty(t) ==
    /\ calls[t].at = "faculty"
    /\ self_conflicts' = [self_conflicts EXCEPT
                            ![calls[t].inst] = @ \o check_faculty_time_conflicts(calls[t].slots)]
    /\ calls' = [calls EXCEPT ![t].at = "room"]
    /\ last' = "check_faculty"
    /\ SFrame

\* line 19: self._check_room_conflicts(slots)
CheckRoom(t) ==
    /\ calls[t].at = "room"
    /\ self_conflicts' = [self_conflicts EXCEPT
                            ![calls[t].inst] = @ \o check_room_conflicts(calls[t].slots)]
    /\ calls' = [calls EXCEPT ![t].at = "workload"]
    /\ last' = "check_room"
    /\ SFrame

\* line 22: self._check_faculty_workload(slots, faculty)
CheckWorkload(t) ==
    /\ calls[t].at = "workload"
    /\ self_conflicts' = [self_conflicts EXCEPT
                            ![calls[t].inst] =
                                @ \o check_faculty_workload(calls[t].slots, calls[t].fac)]
    /\ calls' = [calls EXCEPT ![t].at = "distribution"]
    /\ last' = "check_workload"
    /\ SFrame

\* line 23: self._check_credit_distribution(slots)
CheckDistribution(t) ==
    /\ calls[t].at = "distribution"
    /\ self_conflicts' = [self_conflicts EXCEPT
                            ![calls[t].inst] = @ \o check_credit_distribution(calls[t].slots)]
    /\ calls' = [calls EXCEPT ![t].at = "return"]
    /\ last' = "check_distribution"
    /\ SFrame

\* line 25: return len(self.conflicts) == 0, self.conflicts -- the values
\* the caller receives at the moment of the return
Return(t) ==
    /\ calls[t].at = "return"
    /\ calls' = [calls EXCEPT ![t].at = "returned",
                              ![t].is_valid = (Len(self_conflicts[calls[t].inst]) = 0),
                              ![t].conflicts = self_conflicts[calls[t].inst]]
    /\ last' = "return"
    /\ UNCHANGED self_conflicts
    /\ SFrame

SNext ==
    \E t \in Threads :
        \/ Enter(t)
        \/ CheckFaculty(t)
        \/ CheckRoom(t)
        \/ CheckWorkload(t)
        \/ CheckDistribution(t)
        \/ Return(t)

SharedSpec == SInit /\ [][SNext]_vars

---------------------------------------------------------------------------
(* The oracle: agents.py.  A response either makes llm.invoke raise, or is
   text json.loads rejects, or is a list of records *)

RawRecord(c, f, d, ts, r, miss) ==
    [course_code |-> c, faculty_id |-> f, day |-> d, time_slot |-> ts, room |-> r,
     missing |-> miss]

RawPool ==
    { RawRecord("CS101", "F001", "Monday",  TimeSlot(T(9, 0),  T(10, 0)), "R101", {}),
      RawRecord("CS201", "F001", "Monday",  TimeSlot(T(9, 30), T(10, 30)), "R101", {}),
      RawRecord("CS201", "F001", "Tuesday", TimeSlot(T(9, 30), T(10, 30)), NoRoom, {"room"}),
      RawRecord("CS301", "F002", "monday",  TimeSlot(T(9, 0),  T(10, 0)), "R101", {}),
      RawRecord("CS301", "",     "Monday",  TimeSlot(T(9, 0),  T(10, 0)), "R101", {"faculty_id"}),
      RawRecord("CS301", "F002", "Monday",  TimeSlot(BadTime,  T(10, 0)), "R101", {}),
      RawRecord("CS301", "F002", "Monday",  TimeSlot(T(10, 0), T(9, 0)), "R101", {}) }

Batches == UNION { [1..n -> RawPool] : n \in 0..MaxBatch }

OracleResponses ==
    { [kind |-> "raise", records |-> <<>>], [kind |-> "unparseable", records |-> <<>>] }
    \cup { [kind |-> "records", records |-> b] : b \in Batches }

\* TimetableAgent.generate_initial_timetable: except -> return []
agent_generate_initial_timetable(resp) ==
    IF resp.kind = "unparseable" THEN <<>> ELSE resp.records

agent_resolve_conflicts_empty(resp, current_timetable) ==
    IF resp.kind = "unparseable" THEN <<>> ELSE resp.records

\* TimetableAgent.resolve_conflicts: except -> return current_timetable
agent_resolve_conflicts(resp, current_timetable) ==
    IF resp.kind = "unparseable" THEN current_timetable ELSE resp.records

\* TimetableAgent.optimize_distribution: except -> return timetable
agent_optimize_distribution(resp, timetable) ==
    IF resp.kind = "unparseable" THEN timetable ELSE resp.records

---------------------------------------------------------------------------
(* The repair loop: timetable_graph.py *)

RequiredKeys == {"course_code", "faculty_id", "day", "time_slot"}

\* the body of the try: a missing key raises KeyError, DayOfWeek(value)
\* raises ValueError for a value that is not one of the seven names;
\* TimeSlot(start_time=..., end_time=...) takes any text
RecordParses_anycase(rec) ==
    rec.missing \cap RequiredKeys = {} /\ rec.day \in DayNames \cup {"monday"}

RecordParses(rec) == rec.missing \cap RequiredKeys = {} /\ rec.day \in DayNames

ToSlot(rec) ==
    TimetableSlot(rec.course_code, rec.faculty_id, rec.day, rec.time_slot,
                  IF "room" \in rec.missing THEN NoRoom ELSE rec.room)

\* the conversion loop of the three nodes: try ... slots.append(slot)
\* except ... continue
parse_slots(data) ==
    LET kept == SelectSeq(data, RecordParses)
    IN  [q \in 1..Len(kept) |-> ToSlot(kept[q])]

\* current_timetable = [{...} for slot in state["generated_slots"]]
to_dicts(slots) ==
    [q \in 1..Len(slots) |->
        RawRecord(slots[q].course_code, slots[q].faculty_id, slots[q].day,
                  slots[q].time_slot, slots[q].room, {})]

should_resolve_conflicts_le(cs, it) ==
    IF Len(cs) > 0
    THEN IF it <= MaxIterations THEN "resolve_conflicts" ELSE "finalize"
    ELSE "optimize"

\* _should_resolve_conflicts and the conditional edges of _build_graph
should_resolve_conflicts(cs, it) ==
    IF Len(cs) > 0
    THEN IF it < MaxIterations THEN "resolve_conflicts" ELSE "finalize"
    ELSE "optimize"

\* generate_timetable: initial_state
Init ==
    /\ pc = "generate_initial"
    /\ faculty \in FacultyTables
    /\ generated_slots = <<>>
    /\ conflicts = <<>>
    /\ status = "initializing"
    /\ iteration = 0
    /\ is_valid = TRUE
    /\ self_conflicts = <<>>
    /\ last = "init"
    /\ repairs = 0
    /\ courses = CourseCodes
    /\ response = NoResponse
    /\ gen_unparsed = FALSE
    /\ Idle

\* _generate_initial_timetable
Generate ==
    /\ pc = "generate_initial"
    /\ last' = "generate_initial"
    /\ \E resp \in OracleResponses :
          /\ response' = resp
          /\ gen_unparsed' = (resp.kind = "unparseable")
          /\ IF resp.kind = "raise"
             THEN pc' = "aborted" /\ UNCHANGED <<generated_slots, status, iteration>>
             ELSE /\ generated_slots' = parse_slots(agent_generate_initial_timetable(resp))
                  /\ status' = "initial_generated"
                  /\ iteration' = 1
                  /\ pc' = "validate"
    /\ UNCHANGED <<faculty, conflicts, is_valid, self_conflicts, repairs, courses,
                   first_call, probe, calls>>

Validate_filtering ==
    /\ pc = "validate"
    /\ last' = "validate"
    /\ response' = NoResponse
    /\ generated_slots' = SelectSeq(generated_slots, RoomAssigned)
    /\ LET r == validator_call(self_conflicts, generated_slots, faculty)
       IN  /\ self_conflicts' = r.self_conflicts
           /\ IF r.raises
              THEN pc' = "aborted" /\ UNCHANGED <<conflicts, status, is_valid>>
              ELSE /\ is_valid' = r.is_valid
                   /\ conflicts' = r.conflicts
                   /\ status' = IF r.is_valid THEN "valid" ELSE "has_conflicts"
                   /\ pc' = should_resolve_conflicts(r.conflicts, iteration)
    /\ UNCHANGED <<faculty, iteration, repairs, courses,
                   gen_unparsed, first_call, probe, calls>>

\* _validate_timetable, then the conditional edge
Validate ==
    /\ pc = "validate"
    /\ last' = "validate"
    /\ response' = NoResponse
    /\ LET r == validator_call(self_conflicts, generated_slots, faculty)
       IN  /\ self_conflicts' = r.self_conflicts
           /\ IF r.raises
              THEN pc' = "aborted" /\ UNCHANGED <<conflicts, status, is_valid>>
              ELSE /\ is_valid' = r.is_valid
                   /\ conflicts' = r.conflicts
                   /\ status' = IF r.is_valid THEN "valid" ELSE "has_conflicts"
                   /\ pc' = should_resolve_conflicts(r.conflicts, iteration)
    /\ UNCHANGED <<faculty, generated_slots, iteration, repairs, courses,
                   gen_unparsed, first_call, probe, calls>>

Resolve_direct ==
    /\ pc = "resolve_conflicts"
    /\ last' = "resolve_conflicts"
    /\ repairs' = repairs + 1
    /\ \E resp \in OracleResponses :
          /\ response' = resp
          /\ IF resp.kind = "raise"
             THEN pc' = "aborted" /\ UNCHANGED <<generated_slots, status, iteration>>
             ELSE /\ generated_slots' =
                         parse_slots(agent_resolve_conflicts(resp, to_dicts(generated_slots)))
                  /\ status' = "conflicts_resolved"
                  /\ iteration' = iteration + 1
                  /\ pc' = should_resolve_conflicts(conflicts, iteration + 1)
    /\ UNCHANGED <<faculty, conflicts, is_valid, self_conflicts, courses,
                   gen_unparsed, first_call, probe, calls>>

\* _resolve_conflicts
Resolve ==
    /\ pc = "resolve_conflicts"
    /\ last' = "resolve_conflicts"
    /\ repairs' = repairs + 1
    /\ \E resp \in OracleResponses :
          /\ response' = resp
          /\ IF resp.kind = "raise"
             THEN pc' = "aborted" /\ UNCHANGED <<generated_slots, status, iteration>>
             ELSE /\ generated_slots' =
                         parse_slots(agent_resolve_conflicts(resp, to_dicts(generated_slots)))
                  /\ status' = "conflicts_resolved"
                  /\ iteration' = iteration + 1
                  /\ pc' = "validate"
    /\ UNCHANGED <<faculty, conflicts, is_valid, self_conflicts, courses,
                   gen_unparsed, first_call, probe, calls>>

Optimize_revalidating ==
    /\ pc = "optimize"
    /\ last' = "optimize"
    /\ \E resp \in OracleResponses :
          /\ response' = resp
          /\ IF resp.kind = "raise"
             THEN pc' = "aborted" /\ UNCHANGED <<generated_slots, status>>
             ELSE /\ generated_slots' =
                         parse_slots(agent_optimize_distribution(resp, to_dicts(generated_slots)))
                  /\ status' = "optimized"
                  /\ pc' = "validate"
    /\ UNCHANGED <<faculty, conflicts, iteration, is_valid, self_conflicts, repairs,
                   courses, gen_unparsed, first_call, probe, calls>>

\* _optimize_timetable
Optimize ==
    /\ pc = "optimize"
    /\ last' = "optimize"
    /\ \E resp \in OracleResponses :
          /\ response' = resp
          /\ IF resp.kind = "raise"
             THEN pc' = "aborted" /\ UNCHANGED <<generated_slots, status>>
             ELSE /\ generated_slots' =
                         parse_slots(agent_optimize_distribution(resp, to_dicts(generated_slots)))
                  /\ status' = "optimized"
                  /\ pc' = "finalize"
    /\ UNCHANGED <<faculty, conflicts, iteration, is_valid, self_conflicts, repairs,
                   courses, gen_unparsed, first_call, probe, calls>>

Finalize_clearing ==
    /\ pc = "finalize"
    /\ last' = "finalize"
    /\ status' = "finalized"
    /\ pc' = "done"
    /\ response' = NoResponse
    /\ conflicts' = <<>>
    /\ UNCHANGED <<faculty, generated_slots, iteration, is_valid,
                   self_conflicts, repairs, courses, gen_unparsed, first_call, probe,
                   calls>>

Finalize_done ==
    /\ pc = "finalize"
    /\ last' = "finalize"
    /\ status' = "done"
    /\ pc' = "done"
    /\ response' = NoResponse
    /\ UNCHANGED <<faculty, generated_slots, conflicts, iteration, is_valid,
                   self_conflicts, repairs, courses, gen_unparsed, first_call, probe,
                   calls>>

\* _finalize_timetable, then END: graph.invoke returns the state
Finalize ==
    /\ pc = "finalize"
    /\ last' = "finalize"
    /\ status' = "finalized"
    /\ pc' = "done"
    /\ response' = NoResponse
    /\ UNCHANGED <<faculty, generated_slots, conflicts, iteration, is_valid,
                   self_conflicts, repairs, courses, gen_unparsed, first_call, probe, calls>>

Next == Generate \/ Validate \/ Resolve \/ Optimize \/ Finalize

Spec == Init /\ [][Next]_vars

\* the edges added in _build_graph (END is "done"), and the way out of the
\* graph taken by a node that raises
Edges ==
    { <<"generate_initial", "validate">>,
      <<"validate", "resolve_conflicts">>, <<"validate", "optimize">>,
      <<"validate", "finalize">>,
      <<"resolve_conflicts", "validate">>,
      <<"optimize", "finalize">>,
      <<"finalize", "done">> }
    \cup { <<n, "aborted">> :
             n \in {"generate_initial", "validate", "resolve_conflicts", "optimize"} }

\* the run moves along an edge out of the current node
EdgeTaken == \E e \in Edges : pc = e[1] /\ pc' = e[2]

\* generate_timetable is one synchronous call of graph.invoke: the node the
\* run is at does run, and the run leaves it along one of its edges
FairSpec == Spec /\ WF_pc(EdgeTaken)

---------------------------------------------------------------------------
(* Properties of the repair loop *)

Returned == pc = "done"

\* llm.invoke raised inside one of the three oracle nodes
OracleRaised == pc = "aborted" /\ last \in {"generate_initial", "resolve_conflicts", "optimize"}

\* C1: a run whose every candidate still conflicts (so it returns with a
\* non-empty conflict list) has made exactly 3 repair attempts and returns
\* with status "finalized"
C1_ThreeRepairsThenFinalized ==
    (Returned /\ Len(conflicts) > 0) => (repairs = 3 /\ status = "finalized")

\* C2: when every oracle call returns a candidate, the run eventually
\* returns from finalize with status "finalized", and it never makes more
\* than 3 repair attempts
C2_EventuallyFinalized ==
    /\ <>((Returned /\ status = "finalized") \/ OracleRaised)
    /\ [](repairs <= 3)

\* C3: after a validate step the next node is optimize when the conflict
\* list is empty, resolve when it is non-empty and iteration < 3, finalize
\* when it is non-empty and iteration >= 3
C3_Routing ==
    (last = "validate" /\ pc # "aborted") =>
        /\ (conflicts = <<>> => pc = "optimize")
        /\ (conflicts # <<>> /\ iteration < 3 => pc = "resolve_conflicts")
        /\ (conflicts # <<>> /\ iteration >= 3 => pc = "finalize")

C3_Witness ==
    last = "validate" /\ pc = "finalize" /\ conflicts # <<>> /\ iteration >= 3

\* C4: iteration equals the number of repair attempts made so far, in every
\* state of a run
C4_IterationCountsRepairs == iteration = repairs

\* C10: after a validate step, is_valid holds exactly when the conflict list
\* is empty, and status is "valid" then and "has_conflicts" otherwise
C10_ValidIffNoConflicts ==
    (last = "validate" /\ pc # "aborted") =>
        /\ is_valid <=> (Len(conflicts) = 0)
        /\ status = (IF Len(conflicts) = 0 THEN "valid" ELSE "has_conflicts")

C10_Witness ==
    /\ last = "validate" /\ pc = "resolve_conflicts"
    /\ ~ is_valid /\ status = "has_conflicts" /\ Len(conflicts) = 2

---------------------------------------------------------------------------
(* Properties of the conflict detector, stated on the assignment itself *)

Validated == pc = "validated"

NSlots == Len(generated_slots)

StartMin(i) ==
    60 * generated_slots[i].time_slot.start_time.h + generated_slots[i].time_slot.start_time.m

EndMin(i) ==
    60 * generated_slots[i].time_slot.end_time.h + generated_slots[i].time_slot.end_time.m

IntervalsOverlap(i, j) == StartMin(i) < EndMin(j) /\ StartMin(j) < EndMin(i)

\* unordered pairs of sessions on the same day with overlapping intervals
ClashingPairs ==
    { p \in (1..NSlots) \X (1..NSlots) :
        /\ p[1] < p[2]
        /\ generated_slots[p[1]].day = generated_slots[p[2]].day
        /\ IntervalsOverlap(p[1], p[2]) }

FacultyClashes ==
    { p \in ClashingPairs :
        generated_slots[p[1]].faculty_id = generated_slots[p[2]].faculty_id }

RoomClashes ==
    { p \in ClashingPairs :
        /\ generated_slots[p[1]].room # NoRoom
        /\ generated_slots[p[1]].room = generated_slots[p[2]].room }

EntriesOfKind(k) == SelectSeq(conflicts, LAMBDA e : e.kind = k)

FacultyIds == {"F001", "F002", "F003"}

MinutesOf(fid) ==
    SumSeq([i \in 1..NSlots |->
              IF generated_slots[i].faculty_id = fid THEN EndMin(i) - StartMin(i) ELSE 0])

OverCap(fid) ==
    \E k \in 1..Len(faculty) :
        faculty[k].id = fid /\ MinutesOf(fid) > 60 * faculty[k].max_hours_per_week

CountOn(d) == Cardinality({i \in 1..NSlots : generated_slots[i].day = d})

DaysWithSessions == {d \in DayNames : CountOn(d) > 0}

\* some day's count is more than 2 away from NSlots / |DaysWithSessions|
DeviatesByMoreThan2 ==
    \E d \in DaysWithSessions :
        Abs(CountOn(d) * Cardinality(DaysWithSessions) - NSlots)
            > 2 * Cardinality(DaysWithSessions)

\* C5: validate emits as many faculty double-booking entries as there are
\* unordered pairs of sessions with the same faculty, the same day and
\* overlapping intervals, each such pair's faculty is named by an entry;
\* CS101 and CS201 of F001 on Monday 09:00-10:00 / 09:30-10:30 give exactly one,
\* and with CS201 on Tuesday the assignment is valid
C5_FacultyEntriesArePairs ==
    Validated =>
        /\ Len(EntriesOfKind("faculty")) = Cardinality(FacultyClashes)
        /\ \A p \in FacultyClashes :
              \E k \in 1..Len(conflicts) :
                  /\ conflicts[k].kind = "faculty"
                  /\ conflicts[k].faculty_id = generated_slots[p[1]].faculty_id
        /\ (generated_slots = <<CS101_Mon, CS201_Mon>> => Len(EntriesOfKind("faculty")) = 1)
        /\ (generated_slots = <<CS101_Mon, CS201_Tue>> /\ faculty = Cap3 => is_valid)

C5_Witness ==
    /\ Validated
    /\ generated_slots = <<CS101_Mon, CS201_Mon>>
    /\ Len(EntriesOfKind("faculty")) = 1

\* C6: validate emits one room double-booking entry per unordered pair of
\* sessions with the same assigned room, the same day and overlapping
\* intervals, and none that involves a session without a room
C6_RoomEntriesArePairs ==
    Validated =>
        /\ Len(EntriesOfKind("room")) = Cardinality(RoomClashes)
        /\ \A k \in 1..Len(conflicts) :
              conflicts[k].kind = "room" => conflicts[k].room # NoRoom

C6_Witness ==
    /\ Validated
    /\ Len(EntriesOfKind("room")) = 1
    /\ \E i, j \in 1..NSlots :
          /\ i < j /\ generated_slots[i] = generated_slots[j]
          /\ generated_slots[i].room = NoRoom

\* C7: for each faculty id validate emits exactly one overload entry when the
\* id is in the capacities table and its summed duration exceeds the cap,
\* and none otherwise: a 3-hour session with cap 3 gives none, one more hour
\* gives one
C7_OverloadIffOverCap ==
    Validated =>
        /\ \A fid \in FacultyIds :
              Len(SelectSeq(EntriesOfKind("overload"), LAMBDA e : e.faculty_id = fid))
                  = (IF OverCap(fid) THEN 1 ELSE 0)
        /\ (generated_slots = <<CS301_3h>> /\ faculty = Cap3
                => Len(EntriesOfKind("overload")) = 0)
        /\ (generated_slots = <<CS301_3h, CS401_1h>> /\ faculty = Cap3
                => Len(EntriesOfKind("overload")) = 1)

C7_Witness ==
    /\ Validated
    /\ generated_slots = <<CS301_3h, CS401_1h>> /\ faculty = Cap3
    /\ Len(EntriesOfKind("overload")) = 1

\* C8: validate emits one daily-distribution entry when some day's session
\* count is more than 2 away from the mean over the days that have sessions,
\* and none otherwise
C8_DistributionIffDeviates ==
    Validated =>
        Len(EntriesOfKind("distribution")) = (IF DeviatesByMoreThan2 THEN 1 ELSE 0)

C8_Witness ==
    /\ Validated
    /\ Len(EntriesOfKind("distribution")) = 1
    /\ CountOn("Monday") = 5 /\ CountOn("Tuesday") = 1 /\ CountOn("Wednesday") = 1

\* C9: the conflict list holds the entries of all four checks: its length is
\* the sum of their counts, and a pair that clashes on faculty and on room
\* gives an entry of each kind
C9_AllChecksContribute ==
    Validated =>
        /\ Len(conflicts) =
              Cardinality(FacultyClashes) + Cardinality(RoomClashes)
              + Cardinality({fid \in FacultyIds : OverCap(fid)})
              + (IF DeviatesByMoreThan2 THEN 1 ELSE 0)
        /\ (FacultyClashes \cap RoomClashes # {}
                => Len(EntriesOfKind("faculty")) > 0 /\ Len(EntriesOfKind("room")) > 0)

C9_Witness ==
    /\ Validated
    /\ FacultyClashes \cap RoomClashes # {}
    /\ Len(EntriesOfKind("overload")) > 0
    /\ Len(conflicts) >= 3

\* C11: validate on the empty assignment returns (True, []) whatever the
\* capacities table is
C11_EmptyIsValid ==
    (last = "validate" /\ generated_slots = <<>>) =>
        pc = "validated" /\ is_valid /\ conflicts = <<>> /\ self_conflicts = <<>>

C11_Witness ==
    Validated /\ generated_slots = <<>> /\ faculty = Cap3 /\ is_valid

EntrySet(cs) == {cs[k] : k \in 1..Len(cs)}

\* C12: a call with the arguments of an earlier call on the same validator
\* instance returns the same flag and the same set of conflict entries,
\* whatever calls were made in between
C12_SameArgumentsSameResult ==
    (pc = "called" /\ first_call.made /\ first_call.later >= 1
     /\ generated_slots = first_call.slots /\ faculty = first_call.fac) =>
        /\ is_valid = first_call.is_valid
        /\ EntrySet(conflicts) = EntrySet(first_call.conflicts)
        /\ Len(conflicts) = Len(first_call.conflicts)

C12_Witness ==
    /\ pc = "called" /\ first_call.made /\ first_call.later >= 2
    /\ generated_slots = first_call.slots /\ faculty = first_call.fac
    /\ generated_slots = <<CS101_Mon, CS201_Mon>>
    /\ Len(conflicts) = 2

\* C13: a validate step of the run leaves the assignment, the capacities
\* table, the course list and the iteration counter as they were
C13_ValidateFrame ==
    [][pc = "validate" =>
          /\ generated_slots' = generated_slots
          /\ faculty' = faculty
          /\ courses' = courses
          /\ iteration' = iteration]_vars

C13_Witness ==
    /\ last = "validate" /\ status = "has_conflicts"
    /\ Len(generated_slots) = 2 /\ generated_slots[2].room = NoRoom
    /\ Len(faculty) > 0

---------------------------------------------------------------------------
(* Properties of the time model *)

Mins(t) == 60 * t.h + t.m

\* C14: overlaps_with is true exactly when not (end_a <= start_b or
\* end_b <= start_a) in minutes since midnight; 09:00-10:00 overlaps
\* 09:30-10:30 and does not overlap 10:00-11:00
C14_OverlapDefinition ==
    (probe.made /\ ~ probe.ab.raises) =>
        /\ probe.ab.value =
              ~ (Mins(probe.a.end_time) <= Mins(probe.b.start_time)
                 \/ Mins(probe.b.end_time) <= Mins(probe.a.start_time))
        /\ (probe.a = TimeSlot(T(9, 0), T(10, 0)) /\ probe.b = TimeSlot(T(9, 30), T(10, 30))
                => probe.ab.value)
        /\ (probe.a = TimeSlot(T(9, 0), T(10, 0)) /\ probe.b = TimeSlot(T(10, 0), T(11, 0))
                => ~ probe.ab.value)

C14_Witness ==
    /\ probe.made
    /\ probe.a = TimeSlot(T(9, 0), T(10, 0)) /\ probe.b = TimeSlot(T(10, 0), T(11, 0))
    /\ ~ probe.ab.raises /\ ~ probe.ab.value

\* C15: overlaps_with gives the same answer with its arguments exchanged,
\* also for intervals with start >= end
C15_OverlapSymmetric == probe.made => probe.ab = probe.ba

C15_Witness ==
    /\ probe.made
    /\ ~ probe.ab.raises /\ probe.ab.value /\ probe.ba.value
    /\ Mins(probe.a.start_time) > Mins(probe.a.end_time)

---------------------------------------------------------------------------
(* Properties of the parsing of oracle responses *)

OracleNodes == {"generate_initial", "resolve_conflicts", "optimize"}

\* C16: no session whose start or end is malformed time text is ever in the
\* assignment, and no run is aborted by such text reaching the detector
C16_NoMalformedTimeAdmitted ==
    /\ \A k \in 1..Len(generated_slots) :
          /\ generated_slots[k].time_slot.start_time.fmt = "HH:MM"
          /\ generated_slots[k].time_slot.end_time.fmt = "HH:MM"
    /\ ~ (pc = "aborted" /\ last = "validate")

\* a record with the four required fields and a canonical weekday name
Conforming(rec) ==
    /\ rec.missing \cap {"course_code", "faculty_id", "day", "time_slot"} = {}
    /\ rec.day \in {"Monday", "Tuesday", "Wednesday", "Thursday", "Friday",
                     "Saturday", "Sunday"}

\* C17: after a node has parsed a list of records, the assignment holds
\* exactly the records that have every required field and a canonical day,
\* in the oracle's order, and the run goes on to the next node
C17_BadRecordsDroppedOthersKept ==
    (last \in OracleNodes /\ response.kind = "records") =>
        LET kept == SelectSeq(response.records, Conforming)
        IN  /\ Len(generated_slots) = Len(kept)
            /\ \A k \in 1..Len(kept) :
                  /\ generated_slots[k].course_code = kept[k].course_code
                  /\ generated_slots[k].faculty_id = kept[k].faculty_id
                  /\ generated_slots[k].day = kept[k].day
                  /\ generated_slots[k].time_slot = kept[k].time_slot
            /\ pc = (IF last = "optimize" THEN "finalize" ELSE "validate")

C17_Witness ==
    /\ last = "resolve_conflicts" /\ response.kind = "records"
    /\ Len(response.records) = 2
    /\ response.records[1].day = "monday"
    /\ Len(generated_slots) = 1
    /\ generated_slots[1].course_code = "CS201" /\ generated_slots[1].day = "Tuesday"

\* the response is not JSON, or one of its records does not parse
OptimizeParseFailure(resp) ==
    \/ resp.kind = "unparseable"
    \/ /\ resp.kind = "records"
       /\ \E k \in 1..Len(resp.records) : ~ Conforming(resp.records[k])

\* C18: when the optimize response or one of its records fails to parse,
\* the assignment after the optimize step is the one before it
C18_FailedOptimizeKeepsAssignment ==
    [][(pc = "optimize" /\ OptimizeParseFailure(response'))
          => generated_slots' = generated_slots]_vars

\* C19: when the repair response is not parseable, the resolve step leaves
\* the assignment as it was and adds one to iteration
C19_UnparsedRepairKeepsAssignment ==
    [][(pc = "resolve_conflicts" /\ response'.kind = "unparseable")
          => (generated_slots' = generated_slots /\ iteration' = iteration + 1)]_vars

C19_Witness ==
    /\ last = "resolve_conflicts" /\ response.kind = "unparseable"
    /\ Len(generated_slots) = 2 /\ generated_slots[2].room = NoRoom
    /\ iteration = 3

\* C20: a run whose generate response is not parseable makes no repair
\* attempt, never has a conflict, validates the empty assignment, and
\* returns from finalize with an empty conflict list
C20_UnparsedGenerateFinalizes ==
    gen_unparsed ~> /\ Returned /\ status = "finalized"
                    /\ generated_slots = <<>> /\ conflicts = <<>>
                    /\ repairs = 0

---------------------------------------------------------------------------
(* Properties of the run as a whole *)

\* C21: an oracle call that raises is caught where it is made, so that no
\* run is ever aborted by a raising oracle call
C21_OracleErrorsAreCaught == ~ (pc = "aborted" /\ response.kind = "raise")

\* C22: the status is always one of initializing, generated, valid,
\* has_conflicts, resolved, optimized, finalized
C22_StatusInListedNames ==
    status \in {"initializing", "generated", "valid", "has_conflicts", "resolved",
                "optimized", "finalized"}

\* C22, with the names the nodes write: the status is always one of
\* initializing, initial_generated, valid, has_conflicts, conflicts_resolved,
\* optimized, finalized
C22_StatusInWrittenNames ==
    status \in {"initializing", "initial_generated", "valid", "has_conflicts",
                "conflicts_resolved", "optimized", "finalized"}

C22_Witness == status = "conflicts_resolved" /\ last = "resolve_conflicts"

\* C23: however two validate calls on independent assignments interleave,
\* on separate validator instances or on one shared instance, each returns
\* the flag and the conflict list it returns when it runs alone
C23_InterleavedCallsAsAlone ==
    \A t \in Threads :
        calls[t].at = "returned" =>
            /\ calls[t].is_valid = validate_timetable(calls[t].slots, calls[t].fac).is_valid
            /\ calls[t].conflicts = validate_timetable(calls[t].slots, calls[t].fac).conflicts

\* C24: every session in the assignment of a run has an interval whose
\* start is before its end
C24_AdmittedIntervalsStartBeforeEnd ==
    \A k \in 1..Len(generated_slots) :
        SlotTimesParse(generated_slots[k]) =>
            Mins(generated_slots[k].time_slot.start_time)
                < Mins(generated_slots[k].time_slot.end_time)

\* what the detector reports for the assignment the run holds now
DetectorReport == validate_timetable(generated_slots, faculty).conflicts

\* C25: the step after a generate or a resolve step is a validate step, and
\* a step chosen by routing (resolve, optimize, or finalize when giving up)
\* is taken right after a validate step, with the conflict list being the
\* detector's report for the assignment held at that moment
C25_DetectorRunsAfterEveryCandidate ==
    [][/\ (last \in {"generate_initial", "resolve_conflicts"} => last' = "validate")
       /\ (last' = "validate" => response' = NoResponse)
       /\ (\/ last' \in {"resolve_conflicts", "optimize"}
           \/ (last' = "finalize" /\ last # "optimize"))
              => (last = "validate" /\ conflicts = DetectorReport)]_vars

C25_Witness ==
    /\ last = "validate" /\ repairs >= 1 /\ pc = "resolve_conflicts"
    /\ conflicts # <<>> /\ conflicts = DetectorReport

\* C26: an optimize step is taken only right after a validate step that
\* left the conflict list empty; the step after it is finalize; once it has
\* been taken the run is never at optimize again; and a run at finalize
\* with conflicts left never takes an optimize step
C26_OptimizeOnceThenFinalize ==
    /\ [][/\ (last' = "optimize" => (last = "validate" /\ conflicts = <<>>))
          /\ (last = "optimize" => last' = "finalize")]_vars
    /\ [](last = "optimize" => [](pc # "optimize"))
    /\ []((pc = "finalize" /\ conflicts # <<>>) => [](last # "optimize"))

C26_Witness ==
    /\ last = "optimize" /\ pc = "finalize" /\ status = "optimized"
    /\ repairs >= 1 /\ conflicts = <<>>

\* C27: a finalize step sets status to "finalized", leaves the assignment,
\* the conflict list and iteration as they were, and ends the run: no step
\* is taken after the run has returned
C27_FinalizeFrame ==
    [][/\ pc = "finalize" =>
             /\ status' = "finalized"
             /\ generated_slots' = generated_slots
             /\ conflicts' = conflicts
             /\ iteration' = iteration
             /\ pc' = "done"
       /\ pc # "done"]_vars

C27_Witness ==
    /\ Returned /\ last = "finalize" /\ status = "finalized"
    /\ conflicts # <<>> /\ generated_slots # <<>> /\ iteration = 3

LaterOf(x, y) == IF x >= y THEN x ELSE y
EarlierOf(x, y) == IF x <= y THEN x ELSE y

\* C28: each faculty double-booking entry names the two courses, the
\* faculty id and the day of a clashing pair, and the window from the later
\* of the two starts to the earlier of the two ends
C28_FacultyEntryNamesOverlapWindow ==
    Validated =>
        \A k \in 1..Len(EntriesOfKind("faculty")) :
            LET e == EntriesOfKind("faculty")[k]
            IN  \E p \in FacultyClashes :
                    /\ e.course1 = generated_slots[p[1]].course_code
                    /\ e.course2 = generated_slots[p[2]].course_code
                    /\ e.faculty_id = generated_slots[p[1]].faculty_id
                    /\ e.day = generated_slots[p[1]].day
                    /\ Mins(e.start_time) = LaterOf(StartMin(p[1]), StartMin(p[2]))
                    /\ Mins(e.end_time) = EarlierOf(EndMin(p[1]), EndMin(p[2]))

\* C29: the conflict list of a returned state is the detector's report for
\* the assignment of that state
C29_FinalConflictsMatchAssignment ==
    (Returned /\ \A k \in 1..Len(generated_slots) : SlotTimesParse(generated_slots[k]))
        => conflicts = DetectorReport

\* C30: an assignment whose sessions are all on one day gets no
\* daily-distribution entry, however many sessions it has
C30_SingleDayNeverUnbalanced ==
    (Validated /\ Cardinality(DaysWithSessions) = 1)
        => EntriesOfKind("distribution") = <<>>

C30_Witness ==
    /\ Validated /\ NSlots = 4
    /\ \A i \in 1..NSlots : generated_slots[i].day = "Monday"
    /\ EntriesOfKind("distribution") = <<>>

====
